---- MODULE Spec2Model ----
(***************************************************************************)
(* A model of the Huffman codec of src/src/huffman_utils.rs: huff (count,  *)
(* build the tree, assign codes, encode, write key and payload) and puff   *)
(* (read the key, rebuild the tree, walk the payload bit by bit).          *)
(*                                                                         *)
(* src/src/lib.rs holds a second huff and puff, the ones main.rs reaches   *)
(* through run (lib.rs declares no module, so the binary does not contain  *)
(* huffman_utils.rs).  They share the tree code line for line, but write   *)
(* the payload alone to <input>.huff and the records alone to              *)
(* <input>.huffk, and decode without a declared bit length.  They are      *)
(* modelled by LibHuff, LibPuffStart and LibDecodeStep.                    *)
(*                                                                         *)
(* Files are sequences of bytes (0..255).  An Option<T> is a sequence of   *)
(* length 0 (None) or 1 (Some).  A HashMap<u8, V> is a function whose      *)
(* domain is a set of bytes; the order in which a HashMap is iterated is   *)
(* not fixed by the program (std's RandomState), so every iteration over   *)
(* one takes the order as a nondeterministic input.                        *)
(***************************************************************************)
EXTENDS Integers, Sequences, FiniteSets, TLC

(***************************************************************************)
(* Bounds of the exploration.                                              *)
(***************************************************************************)
\* Longest input file, in bytes.
MaxLen == 5
\* A decode loop over a single-leaf tree never ends (search_tree reads no
\* bit); it is followed for this many written bytes.  A loop over a tree
\* with two or more leaves reads at least one bit per iteration and is
\* followed to its end.
MaxOut == 8
\* Number of distinct byte values frequency tables are drawn from.
NumTreeBytes == 4
\* Largest frequency of a byte in a frequency table drawn directly.
MaxFreq == 3
\* Largest number of 9-byte records in a stored file drawn directly.
MaxRecords == 2

\* Input files are drawn from the bytes 'A', 'B', 'C'; frequency tables from
\* 'A', 'B', 'C', 'D', ...
ByteVals == {65, 66, 67}
TreeByteVals == 65 .. (65 + NumTreeBytes - 1)

None == << >>
Some(x) == << x >>

(***************************************************************************)
(* Generic helpers.                                                        *)
(***************************************************************************)
Front(s) == SubSeq(s, 1, Len(s) - 1)
Last(s) == s[Len(s)]
Range(s) == { s[i] : i \in 1..Len(s) }
EmptyMap == [ x \in {} |-> 0 ]

\* All sequences over S of length at most n.
SeqsUpTo(S, n) == UNION { [1..k -> S] : k \in 0..n }

\* HashMap::insert: the later value replaces an earlier one for the key.
MapInsert(m, k, v) == [ x \in DOMAIN m \cup {k} |-> IF x = k THEN v ELSE m[x] ]
\* Inserting every entry of g into f.
MapInsertAll(f, g) ==
    [ x \in DOMAIN f \cup DOMAIN g |-> IF x \in DOMAIN g THEN g[x] ELSE f[x] ]

\* The orders in which a HashMap may be iterated: every sequence of its
\* (key, value) pairs without repetition.
Enumerations(m) ==
    { e \in [1..Cardinality(DOMAIN m) -> { <<k, m[k]>> : k \in DOMAIN m }] :
        \A i, j \in DOMAIN e : i # j => e[i] # e[j] }

\* The enumeration in increasing key order (one of the possible orders).
RECURSIVE SortedEnumeration(_)
SortedEnumeration(m) ==
    IF DOMAIN m = {} THEN << >>
    ELSE LET k == CHOOSE x \in DOMAIN m : \A y \in DOMAIN m : x <= y
         IN  << <<k, m[k]>> >> \o
             SortedEnumeration([ x \in DOMAIN m \ {k} |-> m[x] ])

(***************************************************************************)
(* Big-endian integers: uN::to_be_bytes and uN::from_be_bytes.             *)
(***************************************************************************)
RECURSIVE to_be_bytes(_, _)
to_be_bytes(n, width) ==
    IF width = 0 THEN << >>
    ELSE Append(to_be_bytes(n \div 256, width - 1), n % 256)

RECURSIVE from_be_bytes(_)
from_be_bytes(bs) ==
    IF bs = << >> THEN 0
    ELSE from_be_bytes(Front(bs)) * 256 + Last(bs)

(***************************************************************************)
(* BitVec: a sequence of bits (0/1).                                       *)
(***************************************************************************)
\* BitVec::to_bytes: most significant bit first, the last byte padded with
\* zero bits.
RECURSIVE bitvec_to_bytes(_)
bitvec_to_bytes(bv) ==
    IF bv = << >> THEN << >>
    ELSE LET bit(i) == IF i <= Len(bv) THEN bv[i] ELSE 0
             first == bit(1) * 128 + bit(2) * 64 + bit(3) * 32 + bit(4) * 16
                      + bit(5) * 8 + bit(6) * 4 + bit(7) * 2 + bit(8)
         IN  << first >> \o
             (IF Len(bv) <= 8 THEN << >>
              ELSE bitvec_to_bytes(SubSeq(bv, 9, Len(bv))))

\* BitVec::from_bytes: eight bits per byte, most significant first.
bitvec_from_bytes(bytes) ==
    [ i \in 1..(8 * Len(bytes)) |->
        LET b == bytes[((i - 1) \div 8) + 1]
            k == 7 - ((i - 1) % 8)
        IN  (b \div (2 ^ k)) % 2 ]

\* BitVec::get(i) for a 0-based index: None past the end.
bitvec_get(bv, i) == IF i < Len(bv) THEN Some(bv[i + 1]) ELSE None

(***************************************************************************)
(* HuffCode and HuffNode.                                                  *)
(***************************************************************************)
HuffCode(byte, code, length) == [ byte |-> byte, code |-> code, length |-> length ]

\* HuffNode::new: a leaf.
new(byte, frequency, code) ==
    [ code |-> HuffCode(byte, code, 0), frequency |-> frequency,
      left |-> None, right |-> None ]

is_leaf(node) == node.left = None /\ node.right = None

\* combine as it would be if the new node always carried the left node's byte.
CombineLeftByte(left, right) ==
    [ code |-> HuffCode(left.code.byte, 0, 0),
      frequency |-> left.frequency + right.frequency,
      left |-> Some(left), right |-> Some(right) ]

\* HuffNode::combine: the new node carries the smaller of the two bytes.
\* (u64 addition; the frequencies explored stay far below 2^64.)
combine(left, right) ==
    [ code |-> IF left.code.byte < right.code.byte
               THEN HuffCode(left.code.byte, 0, 0)
               ELSE HuffCode(right.code.byte, 0, 0),
      frequency |-> left.frequency + right.frequency,
      left |-> Some(left), right |-> Some(right) ]

\* The comparator as it would be with the frequencies compared the other way
\* round (b.frequency.cmp(&a.frequency)).
NodeLessDescending(a, b) ==
    \/ a.frequency > b.frequency
    \/ a.frequency = b.frequency /\ a.code.byte < b.code.byte

\* The comparator of nodes.sort_by: a sorts strictly before b.
node_less(a, b) ==
    \/ a.frequency < b.frequency
    \/ a.frequency = b.frequency /\ a.code.byte < b.code.byte

\* slice::sort_by is a stable sort: x goes before the first element it is
\* strictly less than, after every element it is equal to.
SortInsert(s, x) ==
    LET later == { i \in 1..Len(s) : node_less(x, s[i]) }
        k == IF later = {} THEN Len(s) + 1
             ELSE CHOOSE i \in later : \A j \in later : i <= j
    IN  SubSeq(s, 1, k - 1) \o << x >> \o SubSeq(s, k, Len(s))

RECURSIVE sort_by(_)
sort_by(s) ==
    IF s = << >> THEN << >> ELSE SortInsert(sort_by(Front(s)), Last(s))

\* One iteration of the loop of build_huff_tree: sort, remove the first two,
\* push their combination.
merge_step(nodes) ==
    LET sorted == sort_by(nodes)
        left == sorted[1]
        right == sorted[2]
    IN  Append(SubSeq(sorted, 3, Len(sorted)), combine(left, right))

RECURSIVE merge_all(_)
merge_all(nodes) ==
    IF Len(nodes) > 1 THEN merge_all(merge_step(nodes)) ELSE nodes

\* The Vec of leaves build_huff_tree starts from, in the map's iteration order.
leaf_nodes(enum) == [ i \in 1..Len(enum) |-> new(enum[i][1], enum[i][2], 0) ]

\* build_huff_tree ends with nodes.remove(0), which panics on an empty Vec.
build_huff_tree_panics(enum) == Len(enum) = 0

\* HuffNode::build_huff_tree, for a non-empty map iterated in the order enum.
build_huff_tree(enum) == merge_all(leaf_nodes(enum))[1]

\* update_codes as it would be if the right child's code were not or-ed with 1.
RECURSIVE UpdateCodesNoOr(_, _, _)
UpdateCodesNoOr(node, c, l) ==
    LET self == IF is_leaf(node)
                THEN [ node EXCEPT !.code.code = c, !.code.length = l ]
                ELSE node
    IN  [ self EXCEPT
            !.left = IF node.left = None THEN None
                     ELSE Some(UpdateCodesNoOr(node.left[1], c * 2, l + 1)),
            !.right = IF node.right = None THEN None
                      ELSE Some(UpdateCodesNoOr(node.right[1], c * 2, l + 1)) ]

\* HuffNode::update_codes.  (usize shifts; a code is never longer than the
\* number of distinct bytes, far below 64 bits here.)
RECURSIVE update_codes(_, _, _)
update_codes(node, c, l) ==
    LET self == IF is_leaf(node)
                THEN [ node EXCEPT !.code.code = c, !.code.length = l ]
                ELSE node
    IN  [ self EXCEPT
            !.left = IF node.left = None THEN None
                     ELSE Some(update_codes(node.left[1], c * 2, l + 1)),
            !.right = IF node.right = None THEN None
                      ELSE Some(update_codes(node.right[1], c * 2 + 1, l + 1)) ]

\* HuffNode::gather_leaves: byte -> HuffCode of every leaf.
RECURSIVE gather_leaves(_)
gather_leaves(node) ==
    LET own == IF is_leaf(node)
               THEN MapInsert(EmptyMap, node.code.byte,
                              HuffCode(node.code.byte, node.code.code, node.code.length))
               ELSE EmptyMap
        l == IF node.left = None THEN EmptyMap ELSE gather_leaves(node.left[1])
        r == IF node.right = None THEN EmptyMap ELSE gather_leaves(node.right[1])
    IN  MapInsertAll(MapInsertAll(own, l), r)

\* HuffNode::search_tree: the byte found (None when the bits run out) and
\* the bit cursor afterwards.
RECURSIVE search_tree(_, _, _)
search_tree(node, bit_vec, bits) ==
    IF is_leaf(node) THEN [ byte |-> Some(node.code.byte), bits |-> bits ]
    ELSE LET next_bit == bitvec_get(bit_vec, bits)
         IN  IF next_bit = None THEN [ byte |-> None, bits |-> bits ]
             ELSE IF next_bit[1] = 1
                  THEN IF node.right = None
                       THEN [ byte |-> None, bits |-> bits + 1 ]
                       ELSE search_tree(node.right[1], bit_vec, bits + 1)
                  ELSE IF node.left = None
                       THEN [ byte |-> None, bits |-> bits + 1 ]
                       ELSE search_tree(node.left[1], bit_vec, bits + 1)

(***************************************************************************)
(* The passes of huff and the key format.                                  *)
(***************************************************************************)
\* count_byte_frequency: byte -> number of occurrences.
RECURSIVE count_byte_frequency(_)
count_byte_frequency(bytes) ==
    IF bytes = << >> THEN EmptyMap
    ELSE LET m == count_byte_frequency(Front(bytes))
             b == Last(bytes)
         IN  MapInsert(m, b, (IF b \in DOMAIN m THEN m[b] ELSE 0) + 1)

\* The bits pushed for one code: for i in (0..length).rev(), code & (1 << i).
code_bits(code) ==
    [ k \in 1..code.length |-> (code.code \div (2 ^ (code.length - k))) % 2 ]

\* The loop of huff_encode: the bits of every byte that has a code; a byte
\* without one pushes nothing (if let Some(code) = byte_codes.get(..)).
RECURSIVE encode_bits(_, _)
encode_bits(byte_codes, bytes) ==
    IF bytes = << >> THEN << >>
    ELSE encode_bits(byte_codes, Front(bytes)) \o
         (IF Last(bytes) \in DOMAIN byte_codes
          THEN code_bits(byte_codes[Last(bytes)])
          ELSE << >>)

RECURSIVE key_records(_)
key_records(enum) ==
    IF enum = << >> THEN << >>
    ELSE key_records(Front(enum)) \o
         << Last(enum)[1] >> \o to_be_bytes(Last(enum)[2], 8)

\* write_huff_key: key_len (u16), huff_len (u64), then one 9-byte record per
\* entry of the map, in the map's iteration order.
write_huff_key(enum, huff_len) ==
    LET key_len == (Len(enum) * 9 + 10) % 65536
    IN  to_be_bytes(key_len, 2) \o to_be_bytes(huff_len, 8) \o key_records(enum)

\* huff_encode: the file written, key then payload.
huff_encode(byte_codes, bytes, enum) ==
    LET bit_vec == encode_bits(byte_codes, bytes)
    IN  write_huff_key(enum, Len(bit_vec)) \o bitvec_to_bytes(bit_vec)

\* The loop of read_huff_key from byte offset pos: records are read while
\* read_exact fills 9 bytes, until the map holds num entries.
RECURSIVE read_records(_, _, _, _, _)
read_records(file, pos, map, num, n) ==
    IF pos + 9 > Len(file) THEN [ byte_frequency |-> map, records_read |-> n ]
    ELSE LET byte == file[pos + 1]
             freq == from_be_bytes(SubSeq(file, pos + 2, pos + 9))
             m2 == MapInsert(map, byte, freq)
         IN  IF Cardinality(DOMAIN m2) >= num
             THEN [ byte_frequency |-> m2, records_read |-> n + 1 ]
             ELSE read_records(file, pos + 9, m2, num, n + 1)

NoKey == [ key_len |-> 0, huff_len |-> 0, byte_frequency |-> EmptyMap,
           records_read |-> 0 ]

\* read_huff_key.  key_len - 10 is a u16 subtraction: with overflow checks
\* (a debug build) it panics below 10, without them it wraps.
read_huff_key(file, overflow_checks) ==
    IF Len(file) < 10 THEN [ status |-> "err", key |-> NoKey ]
    ELSE LET key_len == from_be_bytes(SubSeq(file, 1, 2))
             huff_len == from_be_bytes(SubSeq(file, 3, 10))
         IN  IF key_len < 10 /\ overflow_checks
             THEN [ status |-> "panic", key |-> NoKey ]
             ELSE LET num_byte_codes == ((key_len - 10) % 65536) \div 9
                      r == read_records(file, 10, EmptyMap, num_byte_codes, 0)
                  IN  [ status |-> "ok",
                        key |-> [ key_len |-> key_len, huff_len |-> huff_len,
                                  byte_frequency |-> r.byte_frequency,
                                  records_read |-> r.records_read ] ]

(***************************************************************************)
(* State.                                                                  *)
(***************************************************************************)
VARIABLES
    input,          \* the file given to huff
    secondPass,     \* what huff's second read of that file returned
    huffFile,       \* Option: the compressed file <input>.huff
    huffkFile,      \* Option: the key file <input>.huffk (lib.rs only)
    huffResult,     \* "none", "ok" or "panic": how the last huff ended
    byte_frequency, \* the frequency table of the last huff / tree build
    leaves,         \* the code table gathered from the tree
    truncated,      \* the compressed file lost payload bytes after huff
    pc,             \* puff: "idle", "decoding", "ok", "err" or "panic"
    key,            \* the HuffKey puff read (with the records it consumed)
    root,           \* Option: the tree most recently built, codes assigned
    bit_vec,        \* puff: the bits after the key
    bits,           \* puff: the bit cursor
    outFile,        \* Option: the file puff writes
    nodes,          \* build_huff_tree: the Vec of nodes
    treePc          \* build_huff_tree followed step by step: "off", "building", "done"

vars == << input, secondPass, huffFile, huffkFile, huffResult, byte_frequency, leaves,
           truncated, pc, key, root, bit_vec, bits, outFile, nodes, treePc >>

huffVars == << input, secondPass, huffFile, huffkFile, huffResult, byte_frequency, leaves,
               truncated >>
puffVars == << pc, key, root, bit_vec, bits, outFile >>
treeVars == << nodes, treePc >>

Inputs == SeqsUpTo(ByteVals, MaxLen)

\* What the second read of the input file can return: the same bytes, or,
\* when the file was appended to in between, one byte more (the byte 'C').
SecondReads(bytes) == { bytes, Append(bytes, 67) }

Init ==
    /\ input \in Inputs
    /\ secondPass = << >>
    /\ huffFile = None
    /\ huffkFile = None
    /\ huffResult = "none"
    /\ byte_frequency = EmptyMap
    /\ leaves = EmptyMap
    /\ truncated = FALSE
    /\ pc = "idle"
    /\ key = NoKey
    /\ root = None
    /\ bit_vec = << >>
    /\ bits = 0
    /\ outFile = None
    /\ nodes = << >>
    /\ treePc = "off"

(***************************************************************************)
(* huff.  It may be run again on the same input before anything else       *)
(* happens to the compressed file.                                         *)
(***************************************************************************)
Huff ==
    /\ pc = "idle"
    /\ ~truncated
    /\ treePc = "off"
    /\ \E counted \in { count_byte_frequency(input) } :
       \E enum \in Enumerations(counted) :
          /\ byte_frequency' = counted
          /\ IF build_huff_tree_panics(enum)
             THEN /\ huffResult' = "panic"
                  /\ UNCHANGED << secondPass, huffFile, leaves, root >>
             ELSE \E tree \in { update_codes(build_huff_tree(enum), 0, 0) } :
                  \E byte_codes \in { gather_leaves(tree) } :
                  \E second \in SecondReads(input) :
                      /\ root' = Some(tree)
                      /\ leaves' = byte_codes
                      /\ secondPass' = second
                      /\ huffFile' = Some(huff_encode(byte_codes, second, enum))
                      /\ huffResult' = "ok"
    /\ UNCHANGED << input, huffkFile, truncated, pc, key, bit_vec, bits, outFile, nodes,
                    treePc >>

\* The environment cuts the last payload byte off the compressed file.
Truncate ==
    /\ pc = "idle"
    /\ huffResult = "ok"
    /\ huffFile # None
    /\ Len(huffFile[1]) > 10 + 9 * Cardinality(DOMAIN byte_frequency)
    /\ huffFile' = Some(Front(huffFile[1]))
    /\ truncated' = TRUE
    /\ UNCHANGED << input, secondPass, huffkFile, huffResult, byte_frequency, leaves >>
    /\ UNCHANGED puffVars
    /\ UNCHANGED treeVars

(***************************************************************************)
(* puff: read_huff_key, build_huff_tree, update_codes, then huff_decode up *)
(* to its loop; the loop is followed one iteration at a time.              *)
(***************************************************************************)
PuffStart ==
    /\ pc = "idle"
    /\ huffFile # None
    /\ \E overflow_checks \in BOOLEAN :
       \E file \in { huffFile[1] } :
       \E k \in { read_huff_key(file, overflow_checks) } :
       \E enum \in Enumerations(k.key.byte_frequency) :
          /\ key' = k.key
          /\ IF k.status # "ok"
             THEN /\ pc' = k.status
                  /\ UNCHANGED << root, bit_vec, bits, outFile >>
             ELSE IF build_huff_tree_panics(enum)
             THEN /\ pc' = "panic"
                  /\ UNCHANGED << root, bit_vec, bits, outFile >>
             ELSE /\ root' = Some(update_codes(build_huff_tree(enum), 0, 0))
                  /\ bit_vec' = bitvec_from_bytes(SubSeq(file, k.key.key_len + 1, Len(file)))
                  /\ bits' = 0
                  /\ outFile' = Some(<< >>)
                  /\ pc' = "decoding"
    /\ UNCHANGED huffVars
    /\ UNCHANGED treeVars

\* One iteration of the while-let loop of huff_decode.
DecodeStep ==
    /\ pc = "decoding"
    /\ \E r \in { search_tree(root[1], bit_vec, bits) } :
          /\ bits' = r.bits
          /\ IF r.byte = None \/ r.bits > key.huff_len
             THEN /\ pc' = "ok"
                  /\ UNCHANGED outFile
             ELSE /\ is_leaf(root[1]) => Len(outFile[1]) < MaxOut
                  /\ outFile' = Some(Append(outFile[1], r.byte[1]))
                  /\ UNCHANGED pc
    /\ UNCHANGED << key, root, bit_vec >>
    /\ UNCHANGED huffVars
    /\ UNCHANGED treeVars

Next ==
    \/ Huff
    \/ Truncate
    \/ PuffStart
    \/ DecodeStep

Spec == Init /\ [][Next]_vars

(***************************************************************************)
(* build_huff_tree followed one loop iteration at a time, from any         *)
(* frequency table and any iteration order of it.                          *)
(***************************************************************************)
Tables == UNION { [S -> 1..MaxFreq] : S \in SUBSET TreeByteVals }

InitTree ==
    /\ byte_frequency \in Tables
    /\ nodes \in { leaf_nodes(enum) : enum \in Enumerations(byte_frequency) }
    /\ treePc = "building"
    /\ input = << >>
    /\ secondPass = << >>
    /\ huffFile = None
    /\ huffkFile = None
    /\ huffResult = "none"
    /\ leaves = EmptyMap
    /\ truncated = FALSE
    /\ pc = "idle"
    /\ key = NoKey
    /\ root = None
    /\ bit_vec = << >>
    /\ bits = 0
    /\ outFile = None

\* One iteration of while nodes.len() > 1.
MergeStep ==
    /\ treePc = "building"
    /\ Len(nodes) > 1
    /\ nodes' = merge_step(nodes)
    /\ UNCHANGED << treePc, root >>
    /\ UNCHANGED huffVars
    /\ UNCHANGED << pc, key, bit_vec, bits, outFile >>

\* The loop is over: nodes.remove(0) (a panic on an empty Vec), then
\* update_codes(0, 0) and gather_leaves as huff does.
AssignCodes ==
    /\ treePc = "building"
    /\ Len(nodes) <= 1
    /\ IF nodes = << >>
       THEN /\ treePc' = "panic"
            /\ UNCHANGED << nodes, root, leaves >>
       ELSE \E tree \in { update_codes(nodes[1], 0, 0) } :
               /\ root' = Some(tree)
               /\ leaves' = gather_leaves(tree)
               /\ nodes' = << >>
               /\ treePc' = "done"
    /\ UNCHANGED << input, secondPass, huffFile, huffkFile, huffResult, byte_frequency,
                    truncated >>
    /\ UNCHANGED << pc, key, bit_vec, bits, outFile >>

NextTree ==
    \/ MergeStep
    \/ AssignCodes

SpecTree == InitTree /\ [][NextTree]_vars

(***************************************************************************)
(* puff on stored files that huff did not necessarily write: any declared  *)
(* key length and bit length, any records, any bytes after them.           *)
(***************************************************************************)
RECURSIVE Concat(_)
Concat(ss) == IF ss = << >> THEN << >> ELSE Concat(Front(ss)) \o Last(ss)

StoredRecords ==
    { << b >> \o to_be_bytes(f, 8) : b \in {65, 66}, f \in {1, 2} }
DeclaredKeyLens == {9, 11} \cup { 10 + 9 * k : k \in 0..MaxRecords }
DeclaredBitLens == {0, 3}
StoredTails == { << >>, << 88 >> }

StoredFiles ==
    LET headers == { to_be_bytes(kl, 2) \o to_be_bytes(hl, 8) :
                        kl \in DeclaredKeyLens, hl \in DeclaredBitLens }
    IN  { h \o Concat(rs) \o t :
            h \in headers, rs \in SeqsUpTo(StoredRecords, MaxRecords), t \in StoredTails }
        \cup { SubSeq(h, 1, n) : h \in headers, n \in {0, 1, 9} }

InitKey ==
    /\ huffFile \in { Some(f) : f \in StoredFiles }
    /\ huffkFile = None
    /\ input = << >>
    /\ secondPass = << >>
    /\ huffResult = "none"
    /\ byte_frequency = EmptyMap
    /\ leaves = EmptyMap
    /\ truncated = FALSE
    /\ pc = "idle"
    /\ key = NoKey
    /\ root = None
    /\ bit_vec = << >>
    /\ bits = 0
    /\ outFile = None
    /\ nodes = << >>
    /\ treePc = "off"

NextKey ==
    \/ PuffStart
    \/ DecodeStep

SpecKey == InitKey /\ [][NextKey]_vars

(***************************************************************************)
(* huff and puff of src/src/lib.rs, the functions run dispatches to.  The  *)
(* tree functions of lib.rs are the same as those of huffman_utils.rs, so  *)
(* the operators above stand for both.                                     *)
(***************************************************************************)
\* lib.rs huff_encode: the file <input>.huff is the packed bits alone.
lib_huff_encode(byte_codes, bytes) == bitvec_to_bytes(encode_bits(byte_codes, bytes))

\* lib.rs write_huff_key: the file <input>.huffk is one 9-byte record per
\* entry of the map, in the map's iteration order, and nothing else.
lib_write_huff_key(enum) == key_records(enum)

\* The loop of lib.rs read_huff_key from byte offset pos: a record is
\* inserted for as long as read_exact fills 9 bytes.
RECURSIVE lib_read_records(_, _, _)
lib_read_records(file, pos, map) ==
    IF pos + 9 > Len(file) THEN map
    ELSE lib_read_records(file, pos + 9,
            MapInsert(map, file[pos + 1], from_be_bytes(SubSeq(file, pos + 2, pos + 9))))

\* lib.rs read_huff_key: the frequency table; Ok whatever the file holds.
lib_read_huff_key(file) == lib_read_records(file, 0, EmptyMap)

\* lib.rs huff: count, build, assign, then huff_encode and write_huff_key.
LibHuff ==
    /\ pc = "idle"
    /\ treePc = "off"
    /\ \E counted \in { count_byte_frequency(input) } :
       \E enum \in Enumerations(counted) :
          /\ byte_frequency' = counted
          /\ IF build_huff_tree_panics(enum)
             THEN /\ huffResult' = "panic"
                  /\ UNCHANGED << secondPass, huffFile, huffkFile, leaves, root >>
             ELSE \E tree \in { update_codes(build_huff_tree(enum), 0, 0) } :
                  \E byte_codes \in { gather_leaves(tree) } :
                  \E second \in SecondReads(input) :
                      /\ root' = Some(tree)
                      /\ leaves' = byte_codes
                      /\ secondPass' = second
                      /\ huffFile' = Some(lib_huff_encode(byte_codes, second))
                      /\ huffkFile' = Some(lib_write_huff_key(enum))
                      /\ huffResult' = "ok"
    /\ UNCHANGED << input, truncated, pc, key, bit_vec, bits, outFile, nodes, treePc >>

\* lib.rs puff: read_huff_key on <file>k (an error when it cannot be opened),
\* build_huff_tree, update_codes, then huff_decode up to its loop.  The map
\* read has no key_len or huff_len; those fields of key stay 0.
LibPuffStart ==
    /\ pc = "idle"
    /\ IF huffkFile = None
       THEN /\ pc' = "err"
            /\ UNCHANGED << key, root, bit_vec, bits, outFile >>
       ELSE \E byte_codes \in { lib_read_huff_key(huffkFile[1]) } :
            \E enum \in Enumerations(byte_codes) :
               /\ key' = [ NoKey EXCEPT !.byte_frequency = byte_codes,
                                        !.records_read = Len(huffkFile[1]) \div 9 ]
               /\ IF build_huff_tree_panics(enum)
                  THEN /\ pc' = "panic"
                       /\ UNCHANGED << root, bit_vec, bits, outFile >>
                  ELSE IF huffFile = None
                  THEN /\ pc' = "err"
                       /\ root' = Some(update_codes(build_huff_tree(enum), 0, 0))
                       /\ UNCHANGED << bit_vec, bits, outFile >>
                  ELSE /\ root' = Some(update_codes(build_huff_tree(enum), 0, 0))
                       /\ bit_vec' = bitvec_from_bytes(huffFile[1])
                       /\ bits' = 0
                       /\ outFile' = Some(<< >>)
                       /\ pc' = "decoding"
    /\ UNCHANGED huffVars
    /\ UNCHANGED treeVars

\* One iteration of the while-let loop of lib.rs huff_decode: every byte
\* search_tree finds is written; the loop ends when the bits run out.
LibDecodeStep ==
    /\ pc = "decoding"
    /\ huffkFile # None
    /\ \E r \in { search_tree(root[1], bit_vec, bits) } :
          /\ bits' = r.bits
          /\ IF r.byte = None
             THEN /\ pc' = "ok"
                  /\ UNCHANGED outFile
             ELSE /\ is_leaf(root[1]) => Len(outFile[1]) < MaxOut
                  /\ outFile' = Some(Append(outFile[1], r.byte[1]))
                  /\ UNCHANGED pc
    /\ UNCHANGED << key, root, bit_vec >>
    /\ UNCHANGED huffVars
    /\ UNCHANGED treeVars

NextLib ==
    \/ LibHuff
    \/ LibPuffStart
    \/ LibDecodeStep

SpecLib == Init /\ [][NextLib]_vars

(***************************************************************************)
(* Properties.                                                             *)
(***************************************************************************)
\* huff ended normally and both of its passes read the same bytes.
HuffCompleted == huffResult = "ok" /\ secondPass = input /\ huffFile # None

DistinctBytes(bytes) == Range(bytes)
Occurrences(bytes, b) == Cardinality({ i \in 1..Len(bytes) : bytes[i] = b })

\* The fields of a stored file, read off its bytes.
StoredKeyLen(file) == from_be_bytes(SubSeq(file, 1, 2))
StoredBitLen(file) == from_be_bytes(SubSeq(file, 3, 10))
StoredRecordByte(file, k) == file[10 + 9 * k + 1]
StoredRecordFreq(file, k) == from_be_bytes(SubSeq(file, 10 + 9 * k + 2, 10 + 9 * k + 9))

RECURSIVE SumCodeLengths(_, _)
SumCodeLengths(table, bytes) ==
    IF bytes = << >> THEN 0
    ELSE SumCodeLengths(table, Front(bytes)) + table[Last(bytes)].length

IsPrefixOf(s, t) == Len(s) <= Len(t) /\ SubSeq(t, 1, Len(s)) = s

\* The code x, as a string of x.length bits, is a prefix of (or equals) y.
IsBitPrefix(x, y) ==
    /\ x.length <= y.length
    /\ y.code \div (2 ^ (y.length - x.length)) = x.code

\* C1: Round-trip. huff never fails on an input, and puff run on the file
\* huff wrote (untouched, both passes of huff having read the same bytes)
\* never fails, never writes anything but a prefix of the input, and when it
\* returns the output equals the input.
C1_RoundTrip ==
    /\ huffResult # "panic"
    /\ (HuffCompleted /\ ~truncated) =>
          /\ pc \notin {"err", "panic"}
          /\ outFile # None => IsPrefixOf(outFile[1], input)
          /\ pc = "ok" => outFile = Some(input)

\* What does hold of the round trip: with at least two distinct bytes in the
\* input, puff on the untouched file returns the input.
RoundTripTwoOrMoreBytes ==
    (HuffCompleted /\ ~truncated /\ Cardinality(DistinctBytes(input)) >= 2) =>
        /\ pc \notin {"err", "panic"}
        /\ outFile # None => IsPrefixOf(outFile[1], input)
        /\ pc = "ok" => outFile = Some(input)

\* C2: Determinism. Running huff again on the same input, while the file of
\* the previous run is still in place, writes a byte-identical file.
C2_Determinism ==
    [][ (Huff /\ HuffCompleted /\ secondPass' = input) => huffFile' = huffFile ]_vars

\* C3: Prefix-freedom. For a table of at least 2 distinct bytes the code table
\* has exactly the bytes of the table as entries, and no code is a bit-prefix
\* of (or equal to) the code of another byte.
C3_PrefixFree ==
    (treePc = "done" /\ Cardinality(DOMAIN byte_frequency) >= 2) =>
        /\ DOMAIN leaves = DOMAIN byte_frequency
        /\ \A a \in DOMAIN leaves : leaves[a].byte = a
        /\ \A a, b \in DOMAIN leaves :
              a # b => ~IsBitPrefix(leaves[a], leaves[b])

C3_Witness ==
    /\ treePc = "done"
    /\ Cardinality(DOMAIN leaves) = 4
    /\ \E a, b \in DOMAIN leaves : leaves[a].length = 1 /\ leaves[b].length = 3

\* C4: Degenerate single-symbol case. For an input of n >= 1 occurrences of
\* one byte, that byte's code is (0, length 1), the header holds one record,
\* and the stored bit length and the payload bit count are both n.
C4_SingleSymbol ==
    (HuffCompleted /\ ~truncated /\ Cardinality(DistinctBytes(input)) = 1) =>
        LET file == huffFile[1]
            b == input[1]
        IN  /\ b \in DOMAIN leaves
            /\ leaves[b].length = 1
            /\ leaves[b].code = 0
            /\ StoredKeyLen(file) = 10 + 9
            /\ StoredBitLen(file) = Len(input)
            /\ Len(encode_bits(leaves, input)) = Len(input)

\* C5: Corruption detection. When the payload was cut so that fewer bits are
\* stored than the key declares, puff does not return success.
C5_TruncationDetected ==
    (/\ truncated
     /\ pc # "idle"
     /\ 8 * (Len(huffFile[1]) - key.key_len) < key.huff_len)
        => pc # "ok"

\* A node orders before another under (cumulative frequency, then the
\* smallest byte among the leaves of the subtree).
SubtreeMinByte(node) ==
    LET bs == DOMAIN gather_leaves(node)
    IN  CHOOSE x \in bs : \A y \in bs : x <= y

RECURSIVE SubtreeFrequency(_)
SubtreeFrequency(node) ==
    IF is_leaf(node) THEN node.frequency
    ELSE SubtreeFrequency(node.left[1]) + SubtreeFrequency(node.right[1])

OrdersBefore(a, b) ==
    \/ SubtreeFrequency(a) < SubtreeFrequency(b)
    \/ /\ SubtreeFrequency(a) = SubtreeFrequency(b)
       /\ SubtreeMinByte(a) < SubtreeMinByte(b)

\* C6: Tie-break determinism. The node a merge step pushes has as left child
\* the smallest and as right child the second smallest node of the pool under
\* (cumulative frequency, smallest byte of the subtree): left orders before
\* right and right before every node left in the pool. The finished tree and
\* its codes are those built from the table iterated in increasing byte order,
\* whatever order the table was iterated in.
C6_TieBreak ==
    /\ (treePc = "building" /\ nodes # << >> /\ ~is_leaf(Last(nodes))) =>
          LET merged == Last(nodes)
          IN  /\ OrdersBefore(merged.left[1], merged.right[1])
              /\ \A i \in 1..(Len(nodes) - 1) :
                    OrdersBefore(merged.right[1], nodes[i])
    /\ treePc = "done" =>
          /\ root = Some(update_codes(build_huff_tree(SortedEnumeration(byte_frequency)), 0, 0))
          /\ leaves = gather_leaves(root[1])

\* The table {A:2, B:2, C:1, D:1}, finished.
C6_Witness ==
    /\ treePc = "done"
    /\ byte_frequency = (65 :> 2) @@ (66 :> 2) @@ (67 :> 1) @@ (68 :> 1)
    /\ \A b \in DOMAIN leaves : leaves[b].length = 2

\* C7: Header contents. The file huff writes starts with header_length
\* 10 + 9n for n distinct input bytes, then the exact number of code bits the
\* encoder appended (the sum of the code lengths over the input), then n
\* records, one per distinct byte, with that byte's number of occurrences;
\* the payload is that many bits rounded up to whole bytes.  (It holds of
\* the huff of huffman_utils.rs, Spec, and not of the huff of lib.rs, SpecLib.)
C7_HeaderContents ==
    (HuffCompleted /\ ~truncated) =>
        LET file == huffFile[1]
            n == Cardinality(DistinctBytes(input))
            bitlen == SumCodeLengths(leaves, input)
        IN  /\ Len(file) = 10 + 9 * n + ((bitlen + 7) \div 8)
            /\ StoredKeyLen(file) = 10 + 9 * n
            /\ StoredBitLen(file) = bitlen
            /\ { StoredRecordByte(file, k) : k \in 0..(n - 1) } = DistinctBytes(input)
            /\ \A k \in 0..(n - 1) :
                  StoredRecordFreq(file, k) = Occurrences(input, StoredRecordByte(file, k))

\* C8: Encoder lookup miss is fatal. huff does not end normally, with a file
\* written, when its second pass met a byte that has no code.
C8_LookupMissFatal ==
    (huffResult = "ok" /\ huffFile # None) =>
        \A i \in 1..Len(secondPass) : secondPass[i] \in DOMAIN leaves

\* The stored file is shorter than the header it declares, or declares a
\* header of fewer than 10 bytes, or holds fewer whole records than declared.
HeaderMalformed(file) ==
    \/ Len(file) < 10
    \/ StoredKeyLen(file) < 10
    \/ Len(file) < StoredKeyLen(file)
    \/ (Len(file) - 10) \div 9 < (StoredKeyLen(file) - 10) \div 9

\* C9: Header format errors. Once puff has read the key of a malformed
\* stored file, it has ended with an error (no success, no panic).
C9_FormatError ==
    (pc # "idle" /\ HeaderMalformed(huffFile[1])) => pc = "err"

\* C10: The deserializer stops at the declared record count: for a declared
\* header_length >= 10 it never consumes more than (header_length - 10) / 9
\* records, and consumes exactly that many when the file holds them.
C10_StopsAtDeclaredCount ==
    (pc \notin {"idle", "err"} /\ StoredKeyLen(huffFile[1]) >= 10) =>
        LET file == huffFile[1]
            declared == (StoredKeyLen(file) - 10) \div 9
        IN  /\ key.records_read <= declared
            /\ (Len(file) - 10) \div 9 >= declared => key.records_read = declared

\* What the bounds check of the decode loop promises of one step: a byte is
\* written only by an iteration that starts before the declared bit length
\* and whose code ends within it, and when puff returns on an untouched file
\* it has written as many bytes as codes were encoded.
BoundsCheckStep ==
    /\ (pc = "decoding" /\ outFile' # outFile) =>
          /\ bits < key.huff_len
          /\ bits' <= key.huff_len
    /\ (pc = "decoding" /\ HuffCompleted /\ ~truncated) =>
          /\ Len(outFile'[1]) <= Len(input)
          /\ pc' = "ok" => Len(outFile'[1]) = Len(input)

\* C11: Decoder bounds check. huff_decode writes a byte only for a code that
\* lies within the first encoded_bit_len bits; once the cursor has reached or
\* passed encoded_bit_len nothing more is written, and the number of bytes
\* written equals the number of codes encoded.
C11_BoundsCheck == [][ BoundsCheckStep ]_vars

\* What does hold of the bounds check: every step of a decode whose tree has
\* more than one leaf keeps it.
BoundsCheckBranchingTree ==
    [][ (root # None /\ ~is_leaf(root[1])) => BoundsCheckStep ]_vars

\* The table {A:3, B:2, C:1} of the input "AAABBC".
TableAAABBC == (65 :> 3) @@ (66 :> 2) @@ (67 :> 1)

\* C12: Shorter codes for more frequent bytes. For any two bytes of a table,
\* the more frequent one has a code no longer than the other's. For
\* {A:3, B:2, C:1} the first merge takes C (left) and B (right), the last
\* merge combines A with that node, and A's code has length 1, B's and C's
\* length 2.
C12_ShorterForFrequent ==
    /\ treePc = "done" =>
          \A a, b \in DOMAIN byte_frequency :
             byte_frequency[a] > byte_frequency[b] =>
                leaves[a].length <= leaves[b].length
    /\ (byte_frequency = TableAAABBC /\ treePc = "building" /\ Len(nodes) = 2) =>
          LET merged == Last(nodes)
          IN  /\ is_leaf(nodes[1]) /\ nodes[1].code.byte = 65
              /\ is_leaf(merged.left[1]) /\ merged.left[1].code.byte = 67
              /\ is_leaf(merged.right[1]) /\ merged.right[1].code.byte = 66
    /\ (byte_frequency = TableAAABBC /\ treePc = "done") =>
          /\ { DOMAIN gather_leaves(root[1].left[1]), DOMAIN gather_leaves(root[1].right[1]) }
                = { {65}, {66, 67} }
          /\ leaves[65].length = 1
          /\ leaves[66].length = 2
          /\ leaves[67].length = 2

\* A finished table whose most frequent byte has a strictly shorter code.
C12_Witness ==
    /\ treePc = "done"
    /\ byte_frequency = TableAAABBC
    /\ leaves[65].length < leaves[66].length

\* C13: Decoder termination. Every iteration of the decode loop of
\* huff_decode either moves the bit cursor forward by at least one bit or
\* ends the loop (so the loop ends on every finite payload), also when the
\* rebuilt tree is a single leaf.
C13_DecoderProgress ==
    [][ pc = "decoding" => (bits' > bits \/ pc' # "decoding") ]_vars

\* What does hold of progress: every iteration over a tree with more than
\* one leaf moves the cursor forward or ends the loop.
DecoderProgressBranchingTree ==
    [][ (pc = "decoding" /\ ~is_leaf(root[1])) =>
           (bits' > bits \/ pc' # "decoding") ]_vars

====
